---- MODULE Spec2Model ----
(***************************************************************************)
(* news-tldr-toolkit: NewsSummariser.summarise (src/src/summariser.py),    *)
(* fetch_page_text (src/summarise_url.py), fetch_feed_items and the digest *)
(* flow (src/news_digest.py, src/app.py) and the file entry points.        *)
(*                                                                         *)
(* A Python str is a sequence of Unicode code points:                      *)
(*   10 "\n"  32 " "  42 "*"  45 "-"  46 "."  8226 "•"  97.. "a".."z"      *)
(***************************************************************************)
EXTENDS Integers, Sequences, FiniteSets, TLC

VARIABLES
    text,           \* summarise(): the text argument
    max_chars,      \* summarise(): the max_chars argument
    model_out,      \* what the pipeline returns: [tldr, bullets] summary_text
    calls,          \* the pipeline invocations made so far, in order
    result,         \* the SummaryResult returned, or NoResult
    pc,             \* position of the running program
    entry,          \* the entry point that runs
    query,          \* digest: the query argument, stripped once main has started
    max_articles,   \* digest: the max_articles argument
    idx,            \* digest: position of the feed loop, then of the article loop
    all_items,      \* digest: all_items; fetch_feed_items: the items returned
    matching_items, \* digest: matching_items
    feed_log,       \* the feed requests made, in order, with their responses
    page_log,       \* the page requests made, in order
    out,            \* what was printed or shown, in order
    exit_code,      \* the process exit status, -1 while none
    constructed,    \* how many NewsSummariser() were constructed
    obtained,       \* the texts extracted or read, each with its subject
    summarised      \* the texts summarise() was called on, each with its subject

sumvars == <<text, max_chars, model_out, calls, result>>
appvars == <<entry, query, max_articles, idx, all_items, matching_items,
             feed_log, page_log, out, exit_code, constructed, obtained,
             summarised>>
vars == <<text, max_chars, model_out, calls, result, pc, entry, query,
          max_articles, idx, all_items, matching_items, feed_log, page_log,
          out, exit_code, constructed, obtained, summarised>>

-----------------------------------------------------------------------------
(* Bounds of the model *)

\* texts are padded with 0..MaxPad whitespace characters on each side
MaxPad == 1
\* text bodies are up to max_input_chars + MaxOver characters long
MaxOver == 2
\* max_chars ranges over -MaxCharsBound .. MaxCharsBound
MaxCharsBound == 520
\* a bullet draft is up to MaxTokens draft tokens long
MaxTokens == 6
\* a feed document has up to MaxElems elements
MaxElems == 3
\* the digest's max_articles ranges over 0 .. MaxArticles
MaxArticles == 2

-----------------------------------------------------------------------------
(* Python str operations *)

Min(a, b) == IF a < b THEN a ELSE b
Max(a, b) == IF a > b THEN a ELSE b

\* the characters str.isspace() holds of, which str.strip() removes
Whitespace ==
    (9..13) \cup (28..32) \cup {133, 160, 5760} \cup (8192..8202)
        \cup {8232, 8233, 8239, 8287, 12288}

\* the line boundaries of str.splitlines()
LineBreaks == {10, 11, 12, 13, 28, 29, 30, 133, 8232, 8233}

RECURSIVE LStripIdx(_, _, _)
LStripIdx(s, chars, i) ==
    IF i > Len(s) \/ s[i] \notin chars THEN i ELSE LStripIdx(s, chars, i + 1)

RECURSIVE RStripIdx(_, _, _)
RStripIdx(s, chars, i) ==
    IF i < 1 \/ s[i] \notin chars THEN i ELSE RStripIdx(s, chars, i - 1)

\* s.strip(chars): leading and trailing characters of chars removed
StripChars(s, chars) ==
    SubSeq(s, LStripIdx(s, chars, 1), RStripIdx(s, chars, Len(s)))

\* s.strip()
Strip(s) == StripChars(s, Whitespace)

\* s[:n] for n >= 0
Prefix(s, n) == SubSeq(s, 1, Min(Len(s), n))

\* s.replace(c, "") for a single character c
RemoveChar(s, c) == SelectSeq(s, LAMBDA x : x # c)

RECURSIVE SplitLinesFrom(_, _, _)
SplitLinesFrom(s, i, cur) ==
    IF i > Len(s) THEN (IF cur = <<>> THEN <<>> ELSE <<cur>>)
    ELSE IF s[i] \in LineBreaks
         THEN <<cur>> \o SplitLinesFrom(s,
                  IF s[i] = 13 /\ i < Len(s) /\ s[i + 1] = 10 THEN i + 2 ELSE i + 1,
                  <<>>)
         ELSE SplitLinesFrom(s, i + 1, Append(cur, s[i]))

\* s.splitlines()
SplitLines(s) == SplitLinesFrom(s, 1, <<>>)

RECURSIVE SplitDotSpaceFrom(_, _, _)
SplitDotSpaceFrom(s, i, cur) ==
    IF i > Len(s) THEN <<cur>>
    ELSE IF i < Len(s) /\ s[i] = 46 /\ s[i + 1] = 32
         THEN <<cur>> \o SplitDotSpaceFrom(s, i + 2, <<>>)
         ELSE SplitDotSpaceFrom(s, i + 1, Append(cur, s[i]))

\* s.split(". ")
SplitDotSpace(s) == SplitDotSpaceFrom(s, 1, <<>>)

RECURSIVE Join(_, _)
\* sep.join(parts)
Join(parts, sep) ==
    IF parts = <<>> THEN <<>>
    ELSE IF Len(parts) = 1 THEN parts[1]
    ELSE parts[1] \o sep \o Join(Tail(parts), sep)

-----------------------------------------------------------------------------
(* NewsSummariser.summarise *)

max_input_chars == 4000

\* "Summarise the following text into 3–5 short bullet points. Return them
\* as separate lines, each starting with a dash '-'.\n\n"
BulletPromptPrefix ==
    <<83,117,109,109,97,114,105,115,101,32,116,104,101,32,102,111,108,108,111,
      119,105,110,103,32,116,101,120,116,32,105,110,116,111,32,51,8211,53,32,
      115,104,111,114,116,32,98,117,108,108,101,116,32,112,111,105,110,116,115,
      46,32,82,101,116,117,114,110,32,116,104,101,109,32,97,115,32,115,101,112,
      97,114,97,116,101,32,108,105,110,101,115,44,32,101,97,99,104,32,115,116,
      97,114,116,105,110,103,32,119,105,116,104,32,97,32,100,97,115,104,32,39,
      45,39,46,10,10>>

\* mutant of TruncateInput: the cut to max_input_chars is missing
TruncateInputNoCut(t) == t

\* text = text.strip(); if len(text) > max_input_chars: text = text[:max_input_chars]
TruncateInput(t) ==
    IF Len(t) > max_input_chars THEN Prefix(t, max_input_chars) ELSE t

\* max_tokens = max(50, min(200, max_chars))
MaxTokensOf(mc) == Max(50, Min(200, mc))

\* mutant of MinLengthOf: the quotient rounded up
MinLengthOfRoundedUp(max_tokens) == (max_tokens + 3) \div 4

\* max_tokens // 4
MinLengthOf(max_tokens) == max_tokens \div 4

\* one invocation of self._summariser(input, max_length=, min_length=, ...)
PipelineCall(input, max_tokens) ==
    [input |-> input, max_length |-> max_tokens,
     min_length |-> MinLengthOf(max_tokens)]

\* the characters stripped from the start of a bullet line: "-•*"
BulletChars == {45, 8226, 42}

\* mutant of ParseLine: the line is not stripped again after its bullet
ParseLineNoRestrip(line) ==
    LET l == Strip(line)
    IN  IF l[1] \in BulletChars THEN Tail(l) ELSE l

\* one step of the loop over bullets_text.splitlines(): the line kept
ParseLine(line) ==
    LET l == Strip(line)
    IN  IF l[1] \in BulletChars THEN Strip(Tail(l)) ELSE l

\* bullet_lines after the loop over bullets_text.splitlines()
LineParse(bullets_text) ==
    LET kept == SelectSeq(SplitLines(bullets_text), LAMBDA l : Strip(l) # <<>>)
    IN  [i \in 1..Len(kept) |-> ParseLine(kept[i])]

\* [p.strip().strip(".") for p in parts if p.strip()]
SentenceSplit(bullets_text) ==
    LET parts == SplitDotSpace(RemoveChar(bullets_text, 8226))
        kept == SelectSeq(parts, LAMBDA p : Strip(p) # <<>>)
    IN  [i \in 1..Len(kept) |-> StripChars(Strip(kept[i]), {46})]

\* bullet_lines before the cut to 5
BulletLines(bullets_text) ==
    IF Len(LineParse(bullets_text)) <= 1
    THEN SentenceSplit(bullets_text)
    ELSE LineParse(bullets_text)

\* mutant of KeepFive: bullet_lines[:6]
KeepSix(bullet_lines) == Prefix(bullet_lines, 6)

\* bullet_points = bullet_lines[:5]
KeepFive(bullet_lines) == Prefix(bullet_lines, 5)

\* bullet_points of the summary_text the bullet-draft invocation returned
BulletPoints(bullets_summary_text) ==
    KeepFive(BulletLines(Strip(bullets_summary_text)))

\* mutant of SummariseCalls: no early return on an empty text
SummariseCallsAlways(t, mc) ==
    <<PipelineCall(TruncateInput(t), MaxTokensOf(mc)),
      PipelineCall(BulletPromptPrefix \o TruncateInput(t), MaxTokensOf(mc))>>

\* the invocations summarise makes on the stripped text t
SummariseCalls(t, mc) ==
    IF t = <<>> THEN <<>>
    ELSE <<PipelineCall(TruncateInput(t), MaxTokensOf(mc)),
           PipelineCall(BulletPromptPrefix \o TruncateInput(t), MaxTokensOf(mc))>>

\* summarise(txt, mc) with the pipeline returning mo.tldr, then mo.bullets
SummariseResult(txt, mc, mo) ==
    IF Strip(txt) = <<>>
    THEN [tldr |-> <<>>, bullet_points |-> <<>>]
    ELSE [tldr |-> Strip(mo.tldr), bullet_points |-> BulletPoints(mo.bullets)]

NoResult == [tldr |-> <<0>>, bullet_points |-> <<<<0>>>>]

\* a call of summarise(text, max_chars) on its own
Summarise ==
    /\ pc = "call"
    /\ entry = "summarise"
    /\ calls' = calls \o SummariseCalls(Strip(text), max_chars)
    /\ result' = SummariseResult(text, max_chars, model_out)
    /\ pc' = "returned"
    /\ UNCHANGED <<text, max_chars, model_out>>
    /\ UNCHANGED appvars

-----------------------------------------------------------------------------
(* Inputs *)

\* a body of n characters, "bcabca...": every position differs from the next
Body(n) == [i \in 1..n |-> 97 + (i % 3)]

Pads == UNION {[1..k -> {32, 10}] : k \in 0..MaxPad}

BodyLens == {0, 1} \cup ((max_input_chars - 1)..(max_input_chars + MaxOver))

Texts == {l \o Body(n) \o r : l \in Pads, r \in Pads, n \in BodyLens}

\* "a", " a. \n"
SampleTldrs == {<<97>>, <<32, 97, 46, 32, 10>>}

\* "- a\n- b", "a. b. c."
SampleDrafts == {<<45, 32, 97, 10, 45, 32, 98>>, <<97, 46, 32, 98, 46, 32, 99, 46>>}

\* the pieces a bullet draft is made of:
\*   "a. "  "* b\n"  "-"  "•"  "\n"  "."
DraftTokens ==
    {<<97, 46, 32>>, <<42, 32, 98, 10>>, <<45>>, <<8226>>, <<10>>, <<46>>}

RECURSIVE Flatten(_)
Flatten(ss) == IF ss = <<>> THEN <<>> ELSE Head(ss) \o Flatten(Tail(ss))

\* the drafts of up to n tokens
Drafts(n) == {Flatten(ts) : ts \in UNION {[1..k -> DraftTokens] : k \in 0..n}}

\* the variables of the entry points, while none of them runs
AppIdle(e) ==
    /\ entry = e
    /\ query = <<>>
    /\ max_articles = 0
    /\ idx = 0
    /\ all_items = <<>>
    /\ matching_items = <<>>
    /\ feed_log = <<>>
    /\ page_log = <<>>
    /\ out = <<>>
    /\ exit_code = -1
    /\ constructed = 0
    /\ obtained = <<>>
    /\ summarised = <<>>

\* summarise on short and long texts, and on every max_chars of the range
Init ==
    /\ \/ /\ text \in Texts
          /\ max_chars \in {30, 300, 350}
          /\ model_out \in [tldr : SampleTldrs, bullets : SampleDrafts]
       \/ /\ text = <<32, 97, 98, 10>>
          /\ max_chars \in (-MaxCharsBound)..MaxCharsBound
          /\ model_out = [tldr |-> <<97>>, bullets |-> <<45, 32, 97, 10, 45, 32, 98>>]
    /\ calls = <<>>
    /\ result = NoResult
    /\ pc = "call"
    /\ AppIdle("summarise")

Next == Summarise

Spec == Init /\ [][Next]_vars

\* summarise on one text, the bullet draft ranging over Drafts
InitBullets ==
    /\ text = <<97, 98>>
    /\ max_chars = 300
    /\ model_out \in [tldr : {<<97>>}, bullets : Drafts(MaxTokens)]
    /\ calls = <<>>
    /\ result = NoResult
    /\ pc = "call"
    /\ AppIdle("summarise")

SpecBullets == InitBullets /\ [][Next]_vars

-----------------------------------------------------------------------------
(* Properties of summarise *)

Returned == pc = "returned"

\* s begins with p
StartsWith(s, p) == Len(s) >= Len(p) /\ SubSeq(s, 1, Len(p)) = p

\* s without its first n characters
Drop(s, n) == SubSeq(s, n + 1, Len(s))

OnlyWhitespace(s) == \A i \in 1..Len(s) : s[i] \in Whitespace

\* the lines of the bullet draft that are not empty after trimming
NonBlankLines(draft) == SelectSeq(SplitLines(draft), LAMBDA l : ~OnlyWhitespace(l))

\* C1: every entry of bullet_points is non-empty after trimming, whatever
\* bullet draft the model returns.
C1_EntriesNonEmpty ==
    Returned =>
        \A i \in 1..Len(result.bullet_points) :
            ~OnlyWhitespace(result.bullet_points[i])

\* C2: bullet_points has between 0 and 5 entries: it is the first 5 entries,
\* in order, of the list either parsing branch produced.
C2_AtMostFive ==
    Returned =>
        LET bl == BulletLines(Strip(model_out.bullets))
            bp == result.bullet_points
        IN  /\ Len(bp) <= 5
            /\ Len(bp) = (IF Len(bl) < 5 THEN Len(bl) ELSE 5)
            /\ \A i \in 1..Len(bp) : bp[i] = bl[i]

\* the line-parse branch produced more than 5 entries and 5 were returned
C2_Witness ==
    /\ Returned
    /\ Len(NonBlankLines(model_out.bullets)) > 5
    /\ Len(result.bullet_points) = 5

\* C3: an empty or whitespace-only text returns tldr = "" and
\* bullet_points = [] with no model invocation; any other text invokes the
\* model twice, the TL;DR invocation first, the bullet-draft invocation
\* (the one whose input starts with the instruction) second.
C3_EmptyInputNoModelCall ==
    Returned =>
        IF OnlyWhitespace(text)
        THEN /\ result = [tldr |-> <<>>, bullet_points |-> <<>>]
             /\ calls = <<>>
        ELSE /\ Len(calls) = 2
             /\ ~StartsWith(calls[1].input, BulletPromptPrefix)
             /\ StartsWith(calls[2].input, BulletPromptPrefix)
             /\ Drop(calls[2].input, Len(BulletPromptPrefix)) = calls[1].input
             /\ result.tldr = Strip(model_out.tldr)

\* summarise returned on a text made of whitespace only, not the empty text
C3_Witness ==
    /\ Returned
    /\ text # <<>>
    /\ OnlyWhitespace(text)
    /\ calls = <<>>

\* C4 as stated: for an input text longer than 4000 characters, every model
\* invocation is passed exactly the first 4000 characters of the input text.
C4_FirstCharsOfInput ==
    (Returned /\ Len(text) > 4000) =>
        /\ Len(calls) = 2
        /\ calls[1].input = SubSeq(text, 1, 4000)
        /\ Drop(calls[2].input, Len(BulletPromptPrefix)) = SubSeq(text, 1, 4000)

\* C4 as amended: for an input text that is longer than 4000 characters
\* after trimming, the TL;DR invocation is passed exactly the first 4000
\* characters of the trimmed text, and the bullet-draft invocation the
\* instruction followed by the same 4000 characters.
C4_FirstCharsOfTrimmedInput ==
    (Returned /\ Len(Strip(text)) > 4000) =>
        /\ Len(calls) = 2
        /\ calls[1].input = SubSeq(Strip(text), 1, 4000)
        /\ calls[2].input = BulletPromptPrefix \o SubSeq(Strip(text), 1, 4000)

\* summarise returned on a text with whitespace before more than 4000 characters
C4_Witness ==
    /\ Returned
    /\ Len(Strip(text)) > 4000
    /\ text[1] \in Whitespace
    /\ Len(calls[1].input) = 4000

\* C5: both invocations get the same max_length = max(50, min(200, max_chars)),
\* in 50..200, and the same min_length = max_length // 4, in 12..50;
\* max_chars = 30 gives 50 and 12, max_chars = 350 gives 200 and 50.
C5_TokenBudget ==
    (Returned /\ calls # <<>>) =>
        /\ Len(calls) = 2
        /\ calls[1].max_length = calls[2].max_length
        /\ calls[1].min_length = calls[2].min_length
        /\ \A i \in 1..2 :
            LET ml == calls[i].max_length
                mn == calls[i].min_length
            IN  /\ ml = (IF max_chars < 50 THEN 50
                         ELSE IF max_chars > 200 THEN 200 ELSE max_chars)
                /\ ml \in 50..200
                /\ 4 * mn <= ml /\ ml < 4 * mn + 4
                /\ mn \in 12..50
                /\ max_chars = 30 => (ml = 50 /\ mn = 12)
                /\ max_chars = 350 => (ml = 200 /\ mn = 50)

\* summarise returned with a max_length that is no multiple of 4
C5_Witness ==
    /\ Returned
    /\ max_chars = 30
    /\ Len(calls) = 2
    /\ calls[2].max_length = 50
    /\ calls[2].min_length = 12

\* what C10 says of one line: trimmed, one leading bullet character removed,
\* trimmed again
Unbulleted(line) ==
    LET t == Strip(line)
    IN  IF t[1] \in {45, 8226, 42} THEN Strip(Drop(t, 1)) ELSE t

\* C10: when the bullet draft has at least two lines that are non-empty
\* after trimming, bullet_points is the first 5 of those lines, in order,
\* each trimmed, with one leading '-', '•' or '*' removed, and trimmed again.
C10_LineParse ==
    (Returned /\ Len(NonBlankLines(model_out.bullets)) >= 2) =>
        LET ls == NonBlankLines(model_out.bullets)
            bp == result.bullet_points
        IN  /\ Len(bp) = (IF Len(ls) < 5 THEN Len(ls) ELSE 5)
            /\ \A i \in 1..Len(bp) : bp[i] = Unbulleted(ls[i])

\* a draft of two lines, the first "--" followed by text: one "-" is removed
C10_Witness ==
    /\ Returned
    /\ Len(NonBlankLines(model_out.bullets)) = 2
    /\ StartsWith(model_out.bullets, <<45, 45, 97>>)
    /\ StartsWith(result.bullet_points[1], <<45, 97>>)

\* s without its trailing periods
RStripPeriods(s) == SubSeq(s, 1, RStripIdx(s, {46}, Len(s)))

\* the fragments of the draft between ". " separators, every "•" removed
\* first, each fragment trimmed and without its trailing periods
Fragments(draft) ==
    LET parts == SplitDotSpace(RemoveChar(draft, 8226))
    IN  [i \in 1..Len(parts) |-> RStripPeriods(Strip(parts[i]))]

\* summarise has returned and the line-based parse of the bullet draft gave
\* at most one entry
FallbackTaken ==
    /\ Returned
    /\ Strip(text) # <<>>
    /\ Len(NonBlankLines(model_out.bullets)) <= 1

\* C11: when the line-based parse of the bullet draft gives at most one
\* entry, bullet_points is computed from the draft text: every "•" removed,
\* split on ". ", each fragment trimmed and without its trailing periods,
\* the empty fragments discarded, the first 5 kept.
C11_SentenceSplitFallback ==
    FallbackTaken =>
        result.bullet_points =
            Prefix(SelectSeq(Fragments(model_out.bullets), LAMBDA f : f # <<>>), 5)

\* what the fallback computes: the fragments that are empty after trimming
\* are discarded first, then each is trimmed and loses its periods at both
\* ends, so an entry may lose a leading period or end up empty
C11_FallbackAsCoded ==
    FallbackTaken =>
        result.bullet_points =
            LET parts == SplitDotSpace(RemoveChar(model_out.bullets, 8226))
                kept == SelectSeq(parts, LAMBDA f : ~OnlyWhitespace(f))
            IN  Prefix([i \in 1..Len(kept) |-> StripChars(Strip(kept[i]), {46})], 5)

\* the shape of the claim's example, three sentences on one line, gives
\* three entries
C11_ExampleReached ==
    /\ FallbackTaken
    /\ model_out.bullets = <<97, 46, 32, 97, 46, 32, 97, 46, 32>>
    /\ result.bullet_points = <<<<97>>, <<97>>, <<97>>>>

-----------------------------------------------------------------------------
(* fetch_feed_items *)

RSS_FEEDS ==
    <<"https://feeds.bbci.co.uk/news/rss.xml",
      "https://feeds.bbci.co.uk/news/world/rss.xml",
      "https://feeds.bbci.co.uk/news/uk/rss.xml",
      "https://feeds.bbci.co.uk/news/world/europe/rss.xml",
      "https://feeds.bbci.co.uk/news/world/asia/rss.xml",
      "https://feeds.bbci.co.uk/news/world/us_and_canada/rss.xml",
      "https://feeds.bbci.co.uk/news/world/middle_east/rss.xml">>

\* An element of a parsed feed document. A child that may be absent is <<>>
\* or <<its content>>: title, description and summary hold their text, link
\* holds [href: <<>> or <<the attribute>>, text: its text].
Elem(tag, title, link, description, summary) ==
    [tag |-> tag, title |-> title, link |-> link,
     description |-> description, summary |-> summary]

\* tag.get_text(strip=True) if tag else ""
TextOf(tag) == IF tag = <<>> THEN <<>> ELSE Strip(tag[1])

\* title = title_tag.get_text(strip=True) if title_tag else ""
ItemTitle(e) == TextOf(e.title)

\* link: the href attribute if the link child has one, else its text
ItemLink(e) ==
    IF e.link # <<>> /\ e.link[1].href # <<>>
    THEN e.link[1].href[1]
    ELSE IF e.link # <<>> THEN Strip(e.link[1].text) ELSE <<>>

\* desc_tag = item.find("description") or item.find("summary")
ItemDescription(e) ==
    TextOf(IF e.description # <<>> THEN e.description ELSE e.summary)

\* mutant of Skipped: an element is skipped when either text is empty
SkippedWhenEitherEmpty(e) == ItemTitle(e) = <<>> \/ ItemDescription(e) = <<>>

\* if not title and not description: continue
Skipped(e) == ItemTitle(e) = <<>> /\ ItemDescription(e) = <<>>

\* the dict appended to items
FeedItem(e) ==
    [title |-> ItemTitle(e), link |-> ItemLink(e),
     description |-> ItemDescription(e)]

\* the loop over soup.find_all(["item", "entry"])
ParseFeed(doc) ==
    LET found == SelectSeq(doc, LAMBDA e : e.tag \in {"item", "entry"})
        kept == SelectSeq(found, LAMBDA e : ~Skipped(e))
    IN  [i \in 1..Len(kept) |-> FeedItem(kept[i])]

\* mutant of FetchFeedItemsOf: a failed request returns [] without a warning
FetchFeedItemsSilent(resp) ==
    IF resp.ok
    THEN [items |-> ParseFeed(resp.body), warned |-> FALSE]
    ELSE [items |-> <<>>, warned |-> FALSE]

\* fetch_feed_items(feed_url) on the response resp: a failed request prints
\* a warning and returns []
FetchFeedItemsOf(resp) ==
    IF resp.ok
    THEN [items |-> ParseFeed(resp.body), warned |-> FALSE]
    ELSE [items |-> <<>>, warned |-> TRUE]

\* something printed or shown about the input numbered subject (the article's
\* number in the digest, 0 elsewhere)
Ev(level, msg, subject) ==
    [level |-> level, msg |-> msg, about |-> "input", subject |-> subject]

\* print(f"[warning] Failed to fetch feed {feed_url}: {e}"), of feed number i
FeedWarning(i) ==
    [level |-> "print", msg |-> "[warning] Failed to fetch feed",
     about |-> "feed", subject |-> i]

\* the elements feed documents are made of
FeedElems ==
    { \* <item><title>T</title><link> u </link><description>d</description>
      Elem("item", <<<<84>>>>, <<[href |-> <<>>, text |-> <<32, 117, 32>>]>>,
           <<<<100>>>>, <<>>),
      \* <entry><title>A</title><link href="h"/><summary>s</summary>
      Elem("entry", <<<<65>>>>, <<[href |-> <<<<104>>>>, text |-> <<>>]>>,
           <<>>, <<<<115>>>>),
      \* <item><link>u</link>
      Elem("item", <<>>, <<[href |-> <<>>, text |-> <<117>>]>>, <<>>, <<>>),
      \* <item><title> </title><link href="h"/><description></description>
      Elem("item", <<<<32>>>>, <<[href |-> <<<<104>>>>, text |-> <<>>]>>,
           <<<<>>>>, <<>>),
      \* <item><title></title><description> d </description>
      Elem("item", <<<<>>>>, <<>>, <<<<32, 100, 32>>>>, <<>>),
      \* <image><title>I</title><link>u</link>
      Elem("image", <<<<73>>>>, <<[href |-> <<>>, text |-> <<117>>]>>, <<>>, <<>>),
      \* <entry><description></description><summary>s</summary>
      Elem("entry", <<>>, <<>>, <<<<>>>>, <<<<115>>>>),
      \* <item><title>B</title>
      Elem("item", <<<<66>>>>, <<>>, <<>>, <<>>) }

FeedDocs == UNION {[1..k -> FeedElems] : k \in 0..MaxElems}

FailedResponse == [ok |-> FALSE, body |-> <<>>]

FeedResponses == {FailedResponse} \cup {[ok |-> TRUE, body |-> d] : d \in FeedDocs}

\* a call of fetch_feed_items(feed_url) on its own
FetchFeedItems ==
    /\ pc = "call"
    /\ entry = "fetch_feed_items"
    /\ \E resp \in FeedResponses :
        /\ feed_log' = Append(feed_log, [url |-> RSS_FEEDS[1], ok |-> resp.ok,
                                         body |-> resp.body])
        /\ all_items' = FetchFeedItemsOf(resp).items
        /\ out' = IF FetchFeedItemsOf(resp).warned
                  THEN Append(out, FeedWarning(1)) ELSE out
    /\ pc' = "returned"
    /\ UNCHANGED sumvars
    /\ UNCHANGED <<entry, query, max_articles, idx, matching_items, page_log,
                   exit_code, constructed, obtained, summarised>>

InitFeed ==
    /\ text = <<>>
    /\ max_chars = 300
    /\ model_out = [tldr |-> <<97>>, bullets |-> <<45, 32, 97, 10, 45, 32, 98>>]
    /\ calls = <<>>
    /\ result = NoResult
    /\ pc = "call"
    /\ AppIdle("fetch_feed_items")

SpecFeed == InitFeed /\ [][FetchFeedItems]_vars

\* absent, or empty once trimmed
EmptyOrAbsent(child) == child = <<>> \/ OnlyWhitespace(child[1])

\* C6: fetch_feed_items emits an item only if its title or its description is
\* non-empty: an <item>/<entry> whose title and description are both empty
\* or absent is omitted, link or no link, and the items emitted keep the
\* order of their elements in the document.
C6_OnlyItemsWithText ==
    (entry = "fetch_feed_items" /\ pc = "returned") =>
        LET doc == feed_log[1].body
            kept == SelectSeq(doc, LAMBDA e :
                        /\ e.tag \in {"item", "entry"}
                        /\ ~(/\ EmptyOrAbsent(e.title)
                             /\ EmptyOrAbsent(IF e.description # <<>>
                                              THEN e.description ELSE e.summary)))
        IN  /\ \A i \in 1..Len(all_items) :
                all_items[i].title # <<>> \/ all_items[i].description # <<>>
            /\ Len(all_items) = Len(kept)
            /\ \A i \in 1..Len(kept) :
                /\ all_items[i].title = ItemTitle(kept[i])
                /\ all_items[i].link = ItemLink(kept[i])
                /\ all_items[i].description = ItemDescription(kept[i])

\* a document whose first element has a link and no text, and is omitted,
\* and whose other two elements are emitted in their order
C6_Witness ==
    /\ entry = "fetch_feed_items"
    /\ pc = "returned"
    /\ Len(feed_log[1].body) = 3
    /\ feed_log[1].body[1].link # <<>>
    /\ feed_log[1].body[1].title = <<>>
    /\ Len(all_items) = 2
    /\ all_items[1].title = <<>>
    /\ all_items[2].description = <<>>

-----------------------------------------------------------------------------
(* fetch_page_text and what the entry points share *)

\* fetch_page_text on a page whose text nodes are nodes, in document order:
\* soup.get_text(separator="\n"), then the non-blank lines, stripped, joined
PageText(nodes) ==
    LET all == SplitLines(Join(nodes, <<10>>))
        kept == SelectSeq(all, LAMBDA l : Strip(l) # <<>>)
    IN  Join([i \in 1..Len(kept) |-> Strip(kept[i])], <<10>>)

\* fetch_page_text(url) on the response resp: raise_for_status() and the
\* request's own exceptions leave the function
FetchPageText(resp) ==
    IF resp.ok
    THEN [raised |-> FALSE, text |-> PageText(resp.body)]
    ELSE [raised |-> TRUE, text |-> <<>>]

\* a page of blank text nodes, a page of the text nodes " a b ", "", "c."
Pages == {<<<<32>>, <<10, 32>>>>, <<<<32, 97, 32, 98, 32>>, <<>>, <<99, 46>>>>}

PageResponses == {FailedResponse} \cup {[ok |-> TRUE, body |-> d] : d \in Pages}

\* requests.get raises on a URL that is empty or blank
PageResponsesFor(url) ==
    IF Strip(url) = <<>> THEN {FailedResponse} ELSE PageResponses

\* the part of the state an entry point works on
S ==
    [text |-> text, calls |-> calls, result |-> result, page_log |-> page_log,
     out |-> out, exit_code |-> exit_code, constructed |-> constructed,
     obtained |-> obtained, summarised |-> summarised]

Set(s) ==
    /\ text' = s.text
    /\ calls' = s.calls
    /\ result' = s.result
    /\ page_log' = s.page_log
    /\ out' = s.out
    /\ exit_code' = s.exit_code
    /\ constructed' = s.constructed
    /\ obtained' = s.obtained
    /\ summarised' = s.summarised

\* print(...), st.warning(...), st.error(...), or the message of SystemExit
Say(s, level, msg, subject) ==
    [s EXCEPT !.out = Append(@, Ev(level, msg, subject))]

\* raise SystemExit(msg): the message is printed and the status is 1
SystemExit(s, msg, subject) ==
    [Say(s, "exit", msg, subject) EXCEPT !.exit_code = 1]

\* main() returns
Return(s) == [s EXCEPT !.exit_code = 0]

\* requests.get(url, ...) was made for the subject
Requested(s, url, resp, subject) ==
    [s EXCEPT !.page_log = Append(@, [url |-> url, ok |-> resp.ok,
                                      subject |-> subject])]

\* the text extracted or read for the subject
Obtained(s, subject, t) ==
    [s EXCEPT !.obtained = Append(@, [subject |-> subject, text |-> t])]

\* summariser = NewsSummariser()
Construct(s) == [s EXCEPT !.constructed = @ + 1]

\* result = summariser.summarise(t, max_chars=max_chars)
CallSummarise(s, subject, t) ==
    [s EXCEPT !.text = t,
              !.calls = @ \o SummariseCalls(Strip(t), max_chars),
              !.result = SummariseResult(t, max_chars, model_out),
              !.summarised = Append(@, [subject |-> subject, text |-> t])]

\* the TL;DR and the bullet points are printed or shown
ShowSummary(s, level, subject) == Say(s, level, "TL;DR", subject)

-----------------------------------------------------------------------------
(* summarise_url.py, summarise_file.py, render_url_mode, render_file_mode *)

Urls == {<<>>, <<32>>, <<117>>}

\* summarise_url.main
UrlCliMain ==
    /\ pc = "start"
    /\ entry = "url_cli"
    /\ \E url \in Urls : \E resp \in PageResponsesFor(url) :
        LET f == FetchPageText(resp)
            s0 == Requested(S, url, resp, 0)
        IN  Set(IF f.raised
                THEN SystemExit(s0, "Error fetching URL", 0)
                ELSE IF f.text = <<>>
                THEN SystemExit(Obtained(s0, 0, f.text),
                                "Could not extract any text from the page.", 0)
                ELSE Return(ShowSummary(
                         CallSummarise(Construct(Obtained(s0, 0, f.text)), 0, f.text),
                         "print", 0)))
    /\ pc' = "done"
    /\ UNCHANGED <<max_chars, model_out, entry, query, max_articles, idx,
                   all_items, matching_items, feed_log>>

\* the file at filepath: <<>> if there is none, else <<its text>>
Files == {<<>>, <<<<>>>>, <<<<32, 10>>>>, <<<<32, 97, 98, 10>>>>}

\* summarise_file.main
FileCliMain ==
    /\ pc = "start"
    /\ entry = "file_cli"
    /\ \E file \in Files :
        Set(IF file = <<>>
            THEN SystemExit(S, "Error: file not found", 0)
            ELSE Return(ShowSummary(
                     CallSummarise(Construct(Obtained(S, 0, file[1])), 0, file[1]),
                     "print", 0)))
    /\ pc' = "done"
    /\ UNCHANGED <<max_chars, model_out, entry, query, max_articles, idx,
                   all_items, matching_items, feed_log>>

\* render_url_mode, the "Summarise URL" button pressed
UiUrlMode ==
    /\ pc = "start"
    /\ entry = "url_ui"
    /\ \E url \in Urls : \E resp \in PageResponsesFor(url) :
        LET f == FetchPageText(resp)
            s0 == Requested(S, url, resp, 0)
        IN  Set(IF Strip(url) = <<>>
                THEN Say(S, "warning", "Please enter a URL.", 0)
                ELSE IF f.raised
                THEN Say(s0, "error", "Error fetching URL", 0)
                ELSE IF f.text = <<>>
                THEN Say(Obtained(s0, 0, f.text), "error",
                         "Could not extract any text from the page.", 0)
                ELSE ShowSummary(
                         CallSummarise(Construct(Obtained(s0, 0, f.text)), 0, f.text),
                         "show", 0))
    /\ pc' = "done"
    /\ UNCHANGED <<max_chars, model_out, entry, query, max_articles, idx,
                   all_items, matching_items, feed_log>>

\* render_file_mode, the "Summarise file" button pressed
UiFileMode ==
    /\ pc = "start"
    /\ entry = "file_ui"
    /\ \E file \in Files :
        Set(IF file = <<>>
            THEN Say(S, "warning", "Please upload a file first.", 0)
            ELSE IF Strip(file[1]) = <<>>
            THEN Say(Obtained(S, 0, file[1]), "error",
                     "The uploaded file seems to be empty or unreadable.", 0)
            ELSE ShowSummary(
                     CallSummarise(Construct(Obtained(S, 0, file[1])), 0,
                                   Strip(file[1])),
                     "show", 0))
    /\ pc' = "done"
    /\ UNCHANGED <<max_chars, model_out, entry, query, max_articles, idx,
                   all_items, matching_items, feed_log>>

-----------------------------------------------------------------------------
(* The digest: news_digest.main and render_digest_mode *)

\* s.lower(), of the ASCII letters
Lower(s) == [i \in 1..Len(s) |-> IF s[i] \in 65..90 THEN s[i] + 32 ELSE s[i]]

\* q in h
Contains(h, q) ==
    \E i \in 0..(Len(h) - Len(q)) : SubSeq(h, i + 1, i + Len(q)) = q

\* mutant of Haystack: title and description joined without the space
HaystackNoSpace(item) == Lower(item.title \o item.description)

\* haystack = (item.get("title", "") + " " + item.get("description", "")).lower()
Haystack(item) == Lower(item.title \o <<32>> \o item.description)

\* the loop that fills matching_items
MatchingItems(q, items) ==
    SelectSeq(items, LAMBDA item : Contains(Haystack(item), Lower(q)))

\* s[:n], n of either sign
SliceTo(s, n) == IF n >= 0 THEN Prefix(s, n) ELSE Prefix(s, Max(0, Len(s) + n))

\* the feed documents of the digest:
\*   <item><title>NHS</title><link> u </link><description>b</description>
\*   <item><title>a</title><description>sB</description>,
\*   <entry><title>Nhs</title><summary>B</summary>
DigestDocs ==
    { <<Elem("item", <<<<78, 72, 83>>>>,
             <<[href |-> <<>>, text |-> <<32, 117, 32>>]>>, <<<<98>>>>, <<>>)>>,
      <<Elem("item", <<<<97>>>>, <<>>, <<<<115, 66>>>>, <<>>),
        Elem("entry", <<<<78, 104, 115>>>>, <<>>, <<>>, <<<<66>>>>)>> }

DigestResponses == {FailedResponse} \cup {[ok |-> TRUE, body |-> d] : d \in DigestDocs}

\* the query argument: " ", " S b\n"
Queries == {<<32>>, <<32, 83, 32, 98, 10>>}

\* one turn of the loop over RSS_FEEDS: fetch_feed_items(feed_url), extend
FetchFeed(e) ==
    /\ pc = "feeds"
    /\ entry = e
    /\ \E resp \in DigestResponses :
        /\ feed_log' = Append(feed_log, [url |-> RSS_FEEDS[idx], ok |-> resp.ok,
                                         body |-> resp.body])
        /\ all_items' = all_items \o FetchFeedItemsOf(resp).items
        /\ out' = IF FetchFeedItemsOf(resp).warned
                  THEN Append(out, FeedWarning(idx)) ELSE out
    /\ idx' = IF idx < Len(RSS_FEEDS) THEN idx + 1 ELSE 0
    /\ pc' = IF idx < Len(RSS_FEEDS) THEN "feeds" ELSE "match"
    /\ UNCHANGED sumvars
    /\ UNCHANGED <<entry, query, max_articles, matching_items, page_log,
                   exit_code, constructed, obtained, summarised>>

\* news_digest.main up to the feed loop
CliDigestStart ==
    /\ pc = "start"
    /\ entry = "digest_cli"
    /\ query' = Strip(query)
    /\ Set(IF Strip(query) = <<>>
           THEN SystemExit(S, "Error: query must not be empty.", 0)
           ELSE S)
    /\ pc' = IF Strip(query) = <<>> THEN "done" ELSE "feeds"
    /\ idx' = 1
    /\ UNCHANGED <<max_chars, model_out, entry, max_articles, all_items,
                   matching_items, feed_log>>

CliFetchFeed == FetchFeed("digest_cli")

\* news_digest.main from the filter to the summariser's construction
CliMatch ==
    /\ pc = "match"
    /\ entry = "digest_cli"
    /\ matching_items' = MatchingItems(query, all_items)
    /\ Set(IF MatchingItems(query, all_items) = <<>>
           THEN Return(Say(S, "print", "No items matched query", 0))
           ELSE Construct(S))
    /\ pc' = IF MatchingItems(query, all_items) = <<>> THEN "done" ELSE "articles"
    /\ idx' = 1
    /\ UNCHANGED <<max_chars, model_out, entry, query, max_articles, all_items,
                   feed_log>>

\* one turn of news_digest.main's loop over matching_items[:max_articles]
CliArticle ==
    /\ pc = "articles"
    /\ entry = "digest_cli"
    /\ idx <= Len(SliceTo(matching_items, max_articles))
    /\ LET link == Strip(matching_items[idx].link)
       IN  \E resp \in PageResponsesFor(link) :
            LET f == FetchPageText(resp)
                s0 == Requested(S, link, resp, idx)
            IN  Set(IF link = <<>>
                    THEN Say(S, "print", "No link available; skipping summarisation.", idx)
                    ELSE IF f.raised
                    THEN Say(s0, "print", "Error fetching article text", idx)
                    ELSE IF f.text = <<>>
                    THEN Say(Obtained(s0, idx, f.text), "print",
                             "Could not extract text from this article.", idx)
                    ELSE ShowSummary(
                             CallSummarise(Obtained(s0, idx, f.text), idx, f.text),
                             "print", idx))
    /\ idx' = idx + 1
    /\ UNCHANGED <<pc, max_chars, model_out, entry, query, max_articles,
                   all_items, matching_items, feed_log>>

\* news_digest.main returns after the last article
CliDigestReturn ==
    /\ pc = "articles"
    /\ entry = "digest_cli"
    /\ idx > Len(SliceTo(matching_items, max_articles))
    /\ Set(Return(S))
    /\ pc' = "done"
    /\ UNCHANGED <<max_chars, model_out, entry, query, max_articles, idx,
                   all_items, matching_items, feed_log>>

\* render_digest_mode, the "Run news digest" button pressed, up to the feed loop
UiDigestStart ==
    /\ pc = "start"
    /\ entry = "digest_ui"
    /\ query' = Strip(query)
    /\ Set(IF Strip(query) = <<>>
           THEN Say(S, "warning", "Please enter a keyword or phrase.", 0)
           ELSE S)
    /\ pc' = IF Strip(query) = <<>> THEN "done" ELSE "feeds"
    /\ idx' = 1
    /\ UNCHANGED <<max_chars, model_out, entry, max_articles, all_items,
                   matching_items, feed_log>>

UiFetchFeed == FetchFeed("digest_ui")

\* render_digest_mode from the filter to the summariser's construction
UiMatch ==
    /\ pc = "match"
    /\ entry = "digest_ui"
    /\ matching_items' = MatchingItems(query, all_items)
    /\ Set(IF MatchingItems(query, all_items) = <<>>
           THEN Say(S, "info", "No items matched query", 0)
           ELSE Construct(Say(S, "success", "Found matching items", 0)))
    /\ pc' = IF MatchingItems(query, all_items) = <<>> THEN "done" ELSE "articles"
    /\ idx' = 1
    /\ UNCHANGED <<max_chars, model_out, entry, query, max_articles, all_items,
                   feed_log>>

\* one turn of render_digest_mode's loop over matching_items[:max_articles]
UiArticle ==
    /\ pc = "articles"
    /\ entry = "digest_ui"
    /\ idx <= Len(SliceTo(matching_items, max_articles))
    /\ LET link == Strip(matching_items[idx].link)
       IN  \E resp \in PageResponsesFor(link) :
            LET f == FetchPageText(resp)
                s0 == Requested(S, link, resp, idx)
            IN  Set(IF link = <<>>
                    THEN Say(Obtained(S, idx, <<>>), "error",
                             "Could not extract text from this article.", idx)
                    ELSE IF f.raised
                    THEN Say(s0, "error", "Error fetching article text", idx)
                    ELSE IF f.text = <<>>
                    THEN Say(Obtained(s0, idx, f.text), "error",
                             "Could not extract text from this article.", idx)
                    ELSE ShowSummary(
                             CallSummarise(Obtained(s0, idx, f.text), idx, f.text),
                             "show", idx))
    /\ idx' = idx + 1
    /\ UNCHANGED <<pc, max_chars, model_out, entry, query, max_articles,
                   all_items, matching_items, feed_log>>

\* render_digest_mode returns after the last article
UiDigestReturn ==
    /\ pc = "articles"
    /\ entry = "digest_ui"
    /\ idx > Len(SliceTo(matching_items, max_articles))
    /\ pc' = "done"
    /\ UNCHANGED sumvars
    /\ UNCHANGED appvars

-----------------------------------------------------------------------------
(* The entry points *)

InitApp ==
    /\ text = <<>>
    /\ max_chars = 300
    /\ model_out = [tldr |-> <<97>>, bullets |-> <<45, 32, 97, 10, 45, 32, 98>>]
    /\ calls = <<>>
    /\ result = NoResult
    /\ pc = "start"
    /\ entry \in {"url_cli", "file_cli", "digest_cli", "url_ui", "file_ui", "digest_ui"}
    /\ query \in (IF entry \in {"digest_cli", "digest_ui"} THEN Queries ELSE {<<>>})
    /\ max_articles \in (IF entry = "digest_cli" THEN 0..MaxArticles
                         ELSE IF entry = "digest_ui" THEN 1..Min(5, MaxArticles)
                         ELSE {0})
    /\ idx = 0
    /\ all_items = <<>>
    /\ matching_items = <<>>
    /\ feed_log = <<>>
    /\ page_log = <<>>
    /\ out = <<>>
    /\ exit_code = -1
    /\ constructed = 0
    /\ obtained = <<>>
    /\ summarised = <<>>

NextApp ==
    \/ UrlCliMain
    \/ FileCliMain
    \/ UiUrlMode
    \/ UiFileMode
    \/ CliDigestStart
    \/ CliFetchFeed
    \/ CliMatch
    \/ CliArticle
    \/ CliDigestReturn
    \/ UiDigestStart
    \/ UiFetchFeed
    \/ UiMatch
    \/ UiArticle
    \/ UiDigestReturn

SpecApp == InitApp /\ [][NextApp]_vars

-----------------------------------------------------------------------------
(* Properties of the entry points *)

Digest == entry \in {"digest_cli", "digest_ui"}

\* the digest has filled matching_items
Matched == Digest /\ (pc = "articles" \/ (pc = "done" /\ Len(feed_log) = Len(RSS_FEEDS)))

\* the events of out that are about the subject
EventsOf(subject) ==
    SelectSeq(out, LAMBDA e : e.about = "input" /\ e.subject = subject)

Shown(subject) == \E i \in 1..Len(EventsOf(subject)) : EventsOf(subject)[i].msg = "TL;DR"

\* what the feeds fetched returned, feed after feed, from request i on
RECURSIVE CollectedFrom(_, _)
CollectedFrom(log, i) ==
    IF i > Len(log) THEN <<>>
    ELSE (IF log[i].ok THEN ParseFeed(log[i].body) ELSE <<>>)
            \o CollectedFrom(log, i + 1)

Collected(log) == CollectedFrom(log, 1)

\* C7: the matching items are exactly the collected items for which the
\* lower-cased query is a substring of lower(title + " " + description), in
\* the order they were collected: feeds in RSS_FEEDS order, each feed's
\* items in document order.
C7_MatchingItems ==
    Matched =>
        /\ Len(feed_log) = Len(RSS_FEEDS)
        /\ \A i \in 1..Len(feed_log) : feed_log[i].url = RSS_FEEDS[i]
        /\ all_items = Collected(feed_log)
        /\ matching_items =
             SelectSeq(all_items, LAMBDA item :
                 Contains(Lower(item.title \o <<32>> \o item.description),
                          Lower(query)))

\* the query "S b" matched "Nhs"/"B" of the second feed and "NHS"/"b" of the
\* third, in that order, and not "a"/"sB", after the first feed had failed
C7_Witness ==
    /\ Matched
    /\ query = <<83, 32, 98>>
    /\ ~feed_log[1].ok
    /\ Len(all_items) = 3
    /\ matching_items = <<all_items[2], all_items[3]>>
    /\ all_items[2].title = <<78, 104, 115>>
    /\ all_items[3].title = <<78, 72, 83>>

Cli == entry \in {"url_cli", "digest_cli"}

EmptyTextReports ==
    {"Could not extract any text from the page.",
     "Could not extract text from this article.",
     "The uploaded file seems to be empty or unreadable."}

\* C9: in every entry point, when the text extracted or read is empty after
\* trimming, that is reported, no summary is shown for it, summarise is not
\* called on it and, where the text is the entry point's only input, no
\* summariser is constructed.
C9_EmptyTextAborts ==
    \A i \in 1..Len(obtained) :
        OnlyWhitespace(obtained[i].text) =>
            /\ \E j \in 1..Len(EventsOf(obtained[i].subject)) :
                EventsOf(obtained[i].subject)[j].msg \in EmptyTextReports
            /\ ~Shown(obtained[i].subject)
            /\ \A j \in 1..Len(summarised) :
                summarised[j].subject # obtained[i].subject
            /\ ~Digest => constructed = 0

\* C9 holds of every entry point but summarise_file
C9_ExceptFileCli == entry # "file_cli" => C9_EmptyTextAborts

====
